---- MODULE Spec2Model ----
(***************************************************************************)
(* Vacuum-world planner (planner.py): the transition model (successors,    *)
(* is_goal) and the two search strategies, depth_first_search and          *)
(* uniform_cost_search, one step of the model per iteration of a search's  *)
(* while loop.                                                             *)
(***************************************************************************)
EXTENDS Integers, Sequences, FiniteSets, TLC

\* Bounds of the model: the largest grid (rows * cols), the largest initial
\* dirty set and the largest blocked set the initial states draw.
MaxCells == 6
MaxDirty == 2
MaxBlocked == 2

VARIABLES
    algo,            \* sys.argv[1]: "depth-first" | "uniform-cost" | "successors"
    rows, cols,      \* the World: grid dimensions
    blocked,         \* the World: set of blocked coordinates
    start,           \* the World: start coordinate
    dirty,           \* the World: initial dirty set
    stack,           \* DFS: list of <<state, path>>, top is the last element
    visited,         \* DFS: set of expanded states
    frontier,        \* UCS: the heap, a set of <<g, seq, state, path>>
    g_best,          \* UCS: dict state -> best known cost
    counter,         \* UCS: next value of itertools.count()
    nodes_generated,
    nodes_expanded,
    returned,        \* "pending" | "plan" | "None" | "error"
    plan,            \* the returned path when returned = "plan"
    expanded_order,  \* history: the states expanded, in order
    iterations,      \* history: the iterations of the while loop so far
    push_log,        \* history: <<state, cost>> of every push, in push order
    pop_log,         \* history, UCS: <<g, seq, state>> of every heappop, in order
    call_state,      \* argument of a direct call of successors
    call_result      \* what that call yielded, in order

vars == <<algo, rows, cols, blocked, start, dirty, stack, visited, frontier,
          g_best, counter, nodes_generated, nodes_expanded, returned, plan,
          expanded_order, iterations, push_log, pop_log, call_state,
          call_result>>

world == <<algo, rows, cols, blocked, start, dirty>>

-----------------------------------------------------------------------------
\* Transition model

\* Mutant of MOVE_DIRS: 'W' entered before 'E'.
MOVE_DIRS_WestFirst == << <<"N", <<-1, 0>> >>, <<"S", <<1, 0>> >>,
                          <<"W", <<0, -1>> >>, <<"E", <<0, 1>> >> >>

\* MOVE_DIRS, in the dict's insertion order.
MOVE_DIRS == << <<"N", <<-1, 0>> >>, <<"S", <<1, 0>> >>,
                <<"E", <<0, 1>> >>, <<"W", <<0, -1>> >> >>

\* Mutant of MoveAllowed: the bounds test is off by one (<= for <).
MoveAllowed_OffByOne(nr, nc, nrows, ncols, blk) ==
    /\ 0 <= nr /\ nr <= nrows
    /\ 0 <= nc /\ nc <= ncols
    /\ <<nr, nc>> \notin blk

\* Mutant of MoveAllowed: the blocked set is not consulted.
MoveAllowed_NoBlock(nr, nc, nrows, ncols, blk) ==
    /\ 0 <= nr /\ nr < nrows
    /\ 0 <= nc /\ nc < ncols

\* The test on line 74.
MoveAllowed(nr, nc, nrows, ncols, blk) ==
    /\ 0 <= nr /\ nr < nrows
    /\ 0 <= nc /\ nc < ncols
    /\ <<nr, nc>> \notin blk

\* Mutant of new_dirty: the vacuumed cell is not removed.
new_dirty_Keep(pos, dset) == dset

\* new_dirty on line 70.
new_dirty(pos, dset) == {d \in dset : d # pos}

\* Lines 69-71: the optional vacuum successor.
VacuumSucc(state) ==
    IF state[1] \in state[2]
    THEN << <<"V", <<state[1], new_dirty(state[1], state[2])>> >> >>
    ELSE << >>

\* Lines 72-75: the moves from index i of MOVE_DIRS onward.
RECURSIVE MoveSuccs(_, _, _, _, _)
MoveSuccs(state, nrows, ncols, blk, i) ==
    IF i > Len(MOVE_DIRS) THEN << >>
    ELSE LET act == MOVE_DIRS[i][1]
             nr  == state[1][1] + MOVE_DIRS[i][2][1]
             nc  == state[1][2] + MOVE_DIRS[i][2][2]
             rest == MoveSuccs(state, nrows, ncols, blk, i + 1)
         IN  IF MoveAllowed(nr, nc, nrows, ncols, blk)
             THEN << <<act, << <<nr, nc>>, state[2] >> >> >> \o rest
             ELSE rest

\* successors(state, rows, cols, blocked): the generator's yields as a list.
successors(state, nrows, ncols, blk) ==
    VacuumSucc(state) \o MoveSuccs(state, nrows, ncols, blk, 1)

\* Mutant of is_goal: one dirty cell left counts as clean.
is_goal_OneLeft(state) == Cardinality(state[2]) <= 1

is_goal(state) == Cardinality(state[2]) = 0

-----------------------------------------------------------------------------
\* Depth-first search

ACTION_ORDER == <<"V", "N", "S", "E", "W">>

\* The sort key on line 102: ACTION_ORDER.index(act), or 999.
SortKey(act) ==
    IF \E i \in 1..Len(ACTION_ORDER) : ACTION_ORDER[i] = act
    THEN (CHOOSE i \in 1..Len(ACTION_ORDER) :
             /\ ACTION_ORDER[i] = act
             /\ \A j \in 1..(i - 1) : ACTION_ORDER[j] # act) - 1
    ELSE 999

\* Stable insertion of x into a list sorted by SortKey.
RECURSIVE InsertSorted(_, _)
InsertSorted(x, s) ==
    IF s = << >> THEN <<x>>
    ELSE IF SortKey(s[Len(s)][1]) <= SortKey(x[1])
         THEN Append(s, x)
         ELSE Append(InsertSorted(x, SubSeq(s, 1, Len(s) - 1)), s[Len(s)])

\* list.sort(key=...) on line 102: a stable sort by SortKey.
RECURSIVE SortSuccs(_)
SortSuccs(s) ==
    IF s = << >> THEN << >>
    ELSE InsertSorted(s[Len(s)], SortSuccs(SubSeq(s, 1, Len(s) - 1)))

\* Mutant of Reversed: the successors are pushed in canonical order.
Reversed_Forgot(s) == s

\* reversed(succs) on line 103.
Reversed(s) == [i \in 1..Len(s) |-> s[Len(s) + 1 - i]]

\* Mutant of StackRest: the popped entry stays on the stack.
StackRest_Keep(stk) == stk

\* stack.pop() on line 91: the entry popped and the stack left.
StackTop(stk) == stk[Len(stk)]
StackRest(stk) == SubSeq(stk, 1, Len(stk) - 1)

\* Mutant of AlreadyVisited: the visited set is never consulted.
AlreadyVisited_Never(state, vis) == FALSE

\* Line 93: key in visited.
AlreadyVisited(state, vis) == state \in vis

\* Mutant of DFSPushed: path is pushed instead of path + [act].
DFSPushed_NoAct(state, path) ==
    LET succs == Reversed(SortSuccs(successors(state, rows, cols, blocked)))
    IN  [i \in 1..Len(succs) |-> <<succs[i][2], path>>]

\* Mutant of DFSPushed: path += [act] in the loop, so that an entry's path
\* also holds the actions of the entries pushed before it.
DFSPushed_Accumulate(state, path) ==
    LET succs == Reversed(SortSuccs(successors(state, rows, cols, blocked)))
    IN  [i \in 1..Len(succs) |->
            <<succs[i][2], path \o [k \in 1..i |-> succs[k][1]]>>]

\* Lines 103-105: the entries appended for one expansion, in push order.
DFSPushed(state, path) ==
    LET succs == Reversed(SortSuccs(successors(state, rows, cols, blocked)))
    IN  [i \in 1..Len(succs) |-> <<succs[i][2], Append(path, succs[i][1])>>]

\* Mutant of DFSGenerated: the pushes are not counted.
DFSGenerated_Forgot(n, pushed) == n

\* Mutant of DFSGenerated: one is counted per expansion, not per push.
DFSGenerated_PerExpansion(n, pushed) == n + 1

\* Line 104: nodes_generated after pushing the entries of one expansion.
DFSGenerated(n, pushed) == n + Len(pushed)

\* One iteration of the while loop, lines 90-105.
DFSIter ==
    /\ algo = "depth-first"
    /\ returned = "pending"
    /\ stack # << >>
    /\ LET state == StackTop(stack)[1]
           path  == StackTop(stack)[2]
       IN  IF AlreadyVisited(state, visited)
           THEN /\ stack' = StackRest(stack)
                /\ UNCHANGED <<visited, nodes_expanded, nodes_generated,
                               returned, plan, expanded_order, push_log>>
           ELSE /\ visited' = visited \cup {state}
                /\ nodes_expanded' = nodes_expanded + 1
                /\ expanded_order' = Append(expanded_order, state)
                /\ IF is_goal(state)
                   THEN /\ returned' = "plan"
                        /\ plan' = path
                        /\ stack' = StackRest(stack)
                        /\ UNCHANGED <<nodes_generated, push_log>>
                   ELSE LET pushed == DFSPushed(state, path)
                        IN  /\ stack' = StackRest(stack) \o pushed
                            /\ nodes_generated' = DFSGenerated(nodes_generated, pushed)
                            /\ push_log' = push_log \o
                                   [i \in 1..Len(pushed) |->
                                       <<pushed[i][1], Len(pushed[i][2])>>]
                            /\ UNCHANGED <<returned, plan>>
    /\ iterations' = iterations + 1
    /\ UNCHANGED <<world, frontier, g_best, counter, pop_log, call_state,
                   call_result>>

\* Line 106: the loop ends with the stack empty.
DFSNoPlan ==
    /\ algo = "depth-first"
    /\ returned = "pending"
    /\ stack = << >>
    /\ returned' = "None"
    /\ UNCHANGED <<world, stack, visited, frontier, g_best, counter,
                   nodes_generated, nodes_expanded, plan, expanded_order,
                   iterations, push_log, pop_log, call_state, call_result>>

-----------------------------------------------------------------------------
\* Uniform-cost search

\* Python's tuple order on heap entries <<g, seq, state, path>>: by g, then by
\* seq (seq is unique, so the comparison never reaches the state).
EntryLess(a, b) == a[1] < b[1] \/ (a[1] = b[1] /\ a[2] < b[2])

\* Mutant of HeapMin: the entry pushed last is popped (a stack, not a heap).
HeapMin_Newest(heap) == CHOOSE e \in heap : \A f \in heap : f[2] <= e[2]

\* heapq.heappop on line 119: the smallest entry of the heap.
HeapMin(heap) == CHOOSE e \in heap : \A f \in heap : f = e \/ EntryLess(e, f)

\* heapq.heappush on lines 113 and 130.
HeapPush(heap, entry) == heap \cup {entry}

\* Line 120: the popped entry is obsolete.
Obsolete(g, best) == g > best

\* Mutant of ShouldPush: a state without a best-known cost is not pushed.
ShouldPush_KnownOnly(gb, nxt, g2) == nxt \in DOMAIN gb /\ g2 < gb[nxt]

\* Mutant of ShouldPush: the best-known cost is not compared (always push).
ShouldPush_Always(gb, nxt, g2) == TRUE

\* Mutant of ShouldPush: <= for < (an equal cost is pushed again).
ShouldPush_NonStrict(gb, nxt, g2) == nxt \notin DOMAIN gb \/ g2 <= gb[nxt]

\* Line 128: prev is None or g2 < prev.
ShouldPush(gb, nxt, g2) == nxt \notin DOMAIN gb \/ g2 < gb[nxt]

\* Line 129: g_best[nxt] = g2.
SetBest(gb, nxt, g2) == [s \in DOMAIN gb \cup {nxt} |-> IF s = nxt THEN g2 ELSE gb[s]]

\* Lines 125-131: the for loop over the successors from index i onward; acc is
\* the search's state (g_best, frontier, counter, nodes_generated) so far.
RECURSIVE UCSRelax(_, _, _, _, _)
UCSRelax(succs, i, g, path, acc) ==
    IF i > Len(succs) THEN acc
    ELSE LET act == succs[i][1]
             nxt == succs[i][2]
             g2  == g + 1
         IN  IF ShouldPush(acc.g_best, nxt, g2)
             THEN UCSRelax(succs, i + 1, g, path,
                      [g_best |-> SetBest(acc.g_best, nxt, g2),
                       frontier |-> HeapPush(acc.frontier,
                                        <<g2, acc.counter, nxt, Append(path, act)>>),
                       counter |-> acc.counter + 1,
                       nodes_generated |-> acc.nodes_generated + 1])
             ELSE UCSRelax(succs, i + 1, g, path, acc)

\* One iteration of the while loop, lines 118-131.
UCSIter ==
    /\ algo = "uniform-cost"
    /\ returned = "pending"
    /\ frontier # {}
    /\ LET entry == HeapMin(frontier)
           g     == entry[1]
           state == entry[3]
           path  == entry[4]
           rest  == frontier \ {entry}
       IN  IF state \notin DOMAIN g_best
           THEN \* KeyError on line 120
                /\ returned' = "error"
                /\ frontier' = rest
                /\ UNCHANGED <<g_best, counter, nodes_generated, nodes_expanded,
                               plan, expanded_order, push_log>>
           ELSE IF Obsolete(g, g_best[state])
           THEN /\ frontier' = rest
                /\ UNCHANGED <<g_best, counter, nodes_generated, nodes_expanded,
                               returned, plan, expanded_order, push_log>>
           ELSE /\ nodes_expanded' = nodes_expanded + 1
                /\ expanded_order' = Append(expanded_order, state)
                /\ IF is_goal(state)
                   THEN /\ returned' = "plan"
                        /\ plan' = path
                        /\ frontier' = rest
                        /\ UNCHANGED <<g_best, counter, nodes_generated, push_log>>
                   ELSE LET acc == UCSRelax(successors(state, rows, cols, blocked),
                                            1, g, path,
                                            [g_best |-> g_best, frontier |-> rest,
                                             counter |-> counter,
                                             nodes_generated |-> nodes_generated])
                        IN  /\ g_best' = acc.g_best
                            /\ frontier' = acc.frontier
                            /\ counter' = acc.counter
                            /\ nodes_generated' = acc.nodes_generated
                            /\ push_log' = push_log \o
                                   [i \in 1..(acc.counter - counter) |->
                                       LET e == CHOOSE f \in acc.frontier :
                                                    f[2] = counter + i - 1
                                       IN  <<e[3], e[1]>>]
                            /\ UNCHANGED <<returned, plan>>
    /\ pop_log' = Append(pop_log, SubSeq(HeapMin(frontier), 1, 3))
    /\ iterations' = iterations + 1
    /\ UNCHANGED <<world, stack, visited, call_state, call_result>>

\* Line 132: the loop ends with the frontier empty.
UCSNoPlan ==
    /\ algo = "uniform-cost"
    /\ returned = "pending"
    /\ frontier = {}
    /\ returned' = "None"
    /\ UNCHANGED <<world, stack, visited, frontier, g_best, counter,
                   nodes_generated, nodes_expanded, plan, expanded_order,
                   iterations, push_log, pop_log, call_state, call_result>>

-----------------------------------------------------------------------------
\* Initial states

Cells(nrows, ncols) == (0..(nrows - 1)) \X (0..(ncols - 1))

\* A validated World, as the searches take it in their parameters: start inside
\* the grid and not blocked, blocked and dirty coordinates inside the grid.
ValidWorld(nrows, ncols, blk, st, dset) ==
    /\ nrows > 0 /\ ncols > 0
    /\ blk \subseteq Cells(nrows, ncols)
    /\ dset \subseteq Cells(nrows, ncols)
    /\ st \in Cells(nrows, ncols) \ blk

WorldInit ==
    \E nrows \in 1..MaxCells, ncols \in 1..MaxCells :
        /\ nrows * ncols <= MaxCells
        /\ \E blk \in SUBSET Cells(nrows, ncols), dset \in SUBSET Cells(nrows, ncols) :
            /\ Cardinality(blk) <= MaxBlocked
            /\ Cardinality(dset) <= MaxDirty
            /\ \E st \in Cells(nrows, ncols) :
                /\ ValidWorld(nrows, ncols, blk, st, dset)
                /\ rows = nrows /\ cols = ncols
                /\ blocked = blk /\ dirty = dset /\ start = st

\* Mutant of DFSInit: the start state is not counted as generated.
DFSInit_NoCount ==
    /\ algo = "depth-first"
    /\ stack = << <<(<<start, dirty>>), << >> >> >>
    /\ visited = {}
    /\ nodes_generated = 0
    /\ nodes_expanded = 0
    /\ frontier = {}
    /\ g_best = [s \in {} |-> 0]
    /\ counter = 0

\* Lines 83-87: depth_first_search before its loop.
DFSInit ==
    /\ algo = "depth-first"
    /\ stack = << <<(<<start, dirty>>), << >> >> >>
    /\ visited = {}
    /\ nodes_generated = 1
    /\ nodes_expanded = 0
    /\ frontier = {}
    /\ g_best = [s \in {} |-> 0]
    /\ counter = 0

\* Lines 110-116: uniform_cost_search before its loop.
UCSInit ==
    /\ algo = "uniform-cost"
    /\ counter = 1
    /\ frontier = HeapPush({}, <<0, 0, (<<start, dirty>>), << >> >>)
    /\ g_best = [s \in {<<start, dirty>>} |-> 0]
    /\ nodes_generated = 1
    /\ nodes_expanded = 0
    /\ stack = << >>
    /\ visited = {}

\* main, lines 142-145: the search named on the command line is called.
Init ==
    /\ WorldInit
    /\ (DFSInit \/ UCSInit)
    /\ returned = "pending"
    /\ plan = << >>
    /\ expanded_order = << >>
    /\ iterations = 0
    /\ push_log = << <<(<<start, dirty>>), 0>> >>
    /\ pop_log = << >>
    /\ call_state = <<start, dirty>>
    /\ call_result = << >>

Next == DFSIter \/ DFSNoPlan \/ UCSIter \/ UCSNoPlan

Spec == Init /\ [][Next]_vars

-----------------------------------------------------------------------------
\* A direct call of successors on a state of a World.

SuccInit ==
    /\ WorldInit
    /\ algo = "successors"
    /\ call_state = <<start, dirty>>
    /\ call_result = << >>
    /\ returned = "pending"
    /\ stack = << >> /\ visited = {} /\ frontier = {}
    /\ g_best = [s \in {} |-> 0] /\ counter = 0
    /\ nodes_generated = 0 /\ nodes_expanded = 0
    /\ plan = << >> /\ expanded_order = << >> /\ iterations = 0
    /\ push_log = << >> /\ pop_log = << >>

\* list(successors(state, rows, cols, blocked)), as on line 100.
SuccCall ==
    /\ algo = "successors"
    /\ returned = "pending"
    /\ call_result' = successors(call_state, rows, cols, blocked)
    /\ returned' = "yielded"
    /\ UNCHANGED <<world, stack, visited, frontier, g_best, counter,
                   nodes_generated, nodes_expanded, plan, expanded_order,
                   iterations, push_log, pop_log, call_state>>

SuccNext == SuccCall

SuccSpec == SuccInit /\ [][SuccNext]_vars

-----------------------------------------------------------------------------
\* Definitions the properties are stated with

StartState == <<start, dirty>>

Searching == algo \in {"depth-first", "uniform-cost"}

Done == returned # "pending"

\* The states one action away from s.
SuccStates(s) ==
    LET succs == successors(s, rows, cols, blocked)
    IN  {succs[i][2] : i \in 1..Len(succs)}

\* Breadth-first layers from the start state: the depth of the first layer that
\* holds a state with an empty dirty set, or -1 when there is none.
RECURSIVE LayerDepth(_, _, _)
LayerDepth(layer, seen, d) ==
    IF \E s \in layer : s[2] = {} THEN d
    ELSE LET nxt == UNION {SuccStates(s) : s \in layer} \ seen
         IN  IF nxt = {} THEN -1 ELSE LayerDepth(nxt, seen \cup nxt, d + 1)

\* The least number of actions of any action sequence from the start state to
\* a state with an empty dirty set (-1: there is no such sequence).
MinActions == LayerDepth({StartState}, {StartState}, 0)

GoalReachable == MinActions >= 0

\* The states reached by applying path[i..] to state: empty when some action is
\* not a successor of the state it is applied to.
RECURSIVE Replay(_, _, _)
Replay(state, path, i) ==
    IF i > Len(path) THEN {state}
    ELSE LET succs == successors(state, rows, cols, blocked)
             hits  == {k \in 1..Len(succs) : succs[k][1] = path[i]}
         IN  IF hits = {} THEN {}
             ELSE UNION {Replay(succs[k][2], path, i + 1) : k \in hits}

\* The index of state s in the expansion order, 0 when it was not expanded.
ExpandedAt(s) ==
    IF \E i \in 1..Len(expanded_order) : expanded_order[i] = s
    THEN CHOOSE i \in 1..Len(expanded_order) : expanded_order[i] = s
    ELSE 0

-----------------------------------------------------------------------------
\* Properties

\* C1: in every valid World with a reachable goal, uniform_cost_search returns
\* a plan, and its length is the minimum number of actions of any action
\* sequence from the start state to a state with an empty dirty set.
C1_UCSOptimal ==
    (algo = "uniform-cost" /\ Done /\ GoalReachable)
        => (returned = "plan" /\ Len(plan) = MinActions)

\* C1 witness: UCS returned a plan of five actions around a blocked cell.
C1_Witness ==
    /\ algo = "uniform-cost" /\ returned = "plan"
    /\ blocked # {} /\ Len(plan) >= 5 /\ Len(plan) = MinActions

\* C2: a plan returned by either search replays legally from the start state
\* (every action is a successor of the state it is applied to) and ends in a
\* state with an empty dirty set.
C2_PlanReachesGoal ==
    (Searching /\ returned = "plan")
        => (\E s \in Replay(StartState, plan, 1) : s[2] = {})

\* C2 witness: depth-first search returned a plan that is longer than needed.
C2_Witness ==
    /\ algo = "depth-first" /\ returned = "plan"
    /\ Cardinality(dirty) = 2 /\ Len(plan) > MinActions
    /\ \E s \in Replay(StartState, plan, 1) : s[2] = {}

\* C3: in every valid World with a reachable goal, a search that has ended
\* has returned a plan (for depth-first search not necessarily a shortest
\* one): neither search returns None unless the goal is unreachable.
C3_Complete ==
    (Searching /\ Done /\ GoalReachable) => returned = "plan"

\* C3 witness: the goal is reachable and depth-first search returned a plan
\* that is not a shortest one.
C3_Witness ==
    /\ algo = "depth-first" /\ GoalReachable /\ returned = "plan"
    /\ blocked # {} /\ Len(plan) > MinActions + 2

\* The number of states of the World: grid positions x subsets of the initial
\* dirty set.
RECURSIVE Pow2(_)
Pow2(n) == IF n = 0 THEN 1 ELSE 2 * Pow2(n - 1)
StateSpaceSize == rows * cols * Pow2(Cardinality(dirty))

\* The sum of the best-known costs gb[k], k in keys.
RECURSIVE SumBest(_, _)
SumBest(gb, keys) ==
    IF keys = {} THEN 0
    ELSE LET k == CHOOSE x \in keys : TRUE IN gb[k] + SumBest(gb, keys \ {k})

\* What is left of a search: for depth-first search the states not yet
\* visited (each may push one entry per action) and the entries on the stack;
\* for uniform-cost search the best-known costs, a state not yet generated
\* counting as the size of the state space, and the entries on the heap.
Work(ret, vis, stk, gb, heap) ==
    (IF ret = "pending" THEN 1 ELSE 0) +
    (IF algo = "depth-first"
     THEN Len(ACTION_ORDER) * (StateSpaceSize - Cardinality(vis)) + Len(stk)
     ELSE SumBest(gb, DOMAIN gb)
          + StateSpaceSize * (StateSpaceSize - Cardinality(DOMAIN gb))
          + Cardinality(heap))

WorkLeft == Work(returned, visited, stack, g_best, frontier)

\* C4: both searches terminate: every loop iteration strictly decreases a
\* non-negative measure of the work left, so the loop runs no more iterations
\* than that measure's value at the start, and a search ends only by returning
\* a plan or with the frontier empty.
C4_Terminates ==
    /\ [](WorkLeft >= 0)
    /\ [](iterations + WorkLeft <= Work("pending", {}, <<StartState>>,
                                        [s \in {StartState} |-> 0], {StartState}))
    /\ [][Work(returned', visited', stack', g_best', frontier') < WorkLeft]_vars
    /\ [](Done => \/ returned = "plan"
                  \/ (returned = "None" /\ stack = << >> /\ frontier = {}))

\* C4 witness: a search has ended with the frontier empty after six or more
\* expansions on a grid with two rows and two or more columns.
C4_Witness ==
    /\ Searching /\ returned = "None" /\ stack = << >> /\ frontier = {}
    /\ nodes_expanded >= 6 /\ rows > 1 /\ cols > 1

\* C5: nodes_expanded <= nodes_generated in every state of a search, and
\* neither counter ever decreases.
C5_Counters ==
    /\ [](Searching => nodes_expanded <= nodes_generated)
    /\ [][/\ nodes_expanded' >= nodes_expanded
          /\ nodes_generated' >= nodes_generated]_vars

\* C5 witness: a search in which every generated node has been expanded.
C5_Witness ==
    /\ Searching /\ nodes_expanded = nodes_generated /\ nodes_expanded > 1

\* C6: with an empty initial dirty set both searches return the empty plan
\* with nodes_generated = 1 and nodes_expanded = 1, whatever the grid, the
\* blocked set and the start position.
C6_StartIsGoal ==
    (Searching /\ dirty = {} /\ Done)
        => (returned = "plan" /\ plan = << >>
            /\ nodes_generated = 1 /\ nodes_expanded = 1)

\* C6 witness: the 1x1 grid with the agent at (0,0) and nothing dirty.
C6_Witness ==
    /\ Searching /\ rows = 1 /\ cols = 1 /\ start = <<0, 0>> /\ dirty = {}
    /\ returned = "plan"

\* The canonical action order and each action's precondition and effect, as
\* C7 states them.
CanonicalOrder == <<"V", "N", "S", "E", "W">>
CanonicalIndex(a) == CHOOSE i \in 1..Len(CanonicalOrder) : CanonicalOrder[i] = a
Destination(pos, a) ==
    CASE a = "N" -> <<pos[1] - 1, pos[2]>>
      [] a = "S" -> <<pos[1] + 1, pos[2]>>
      [] a = "E" -> <<pos[1], pos[2] + 1>>
      [] a = "W" -> <<pos[1], pos[2] - 1>>
      [] a = "V" -> pos
Precondition(s, a) ==
    IF a = "V" THEN s[1] \in s[2]
    ELSE Destination(s[1], a) \in Cells(rows, cols) \ blocked
Effect(s, a) ==
    IF a = "V" THEN <<s[1], s[2] \ {s[1]}>> ELSE <<Destination(s[1], a), s[2]>>

\* C7: successors yields exactly the legal (action, next-state) pairs in the
\* order vacuum, north, south, east, west: an action is yielded iff its
\* precondition holds, with the state its effect gives.
C7_Successors ==
    (algo = "successors" /\ returned = "yielded") =>
        LET res == call_result
            acts == {CanonicalOrder[i] : i \in 1..Len(CanonicalOrder)}
        IN  /\ \A i \in 1..Len(res) : res[i][1] \in acts
            /\ \A i, j \in 1..Len(res) :
                   i < j => CanonicalIndex(res[i][1]) < CanonicalIndex(res[j][1])
            /\ \A a \in acts :
                   (\E i \in 1..Len(res) : res[i][1] = a) <=> Precondition(call_state, a)
            /\ \A i \in 1..Len(res) : res[i][2] = Effect(call_state, res[i][1])

\* C7 witness: a call that yields the vacuum and some but not all moves, next
\* to a blocked cell.
C7_Witness ==
    /\ algo = "successors" /\ returned = "yielded"
    /\ Len(call_result) = 3 /\ call_result[1][1] = "V"
    /\ \E a \in {"N", "S", "E", "W"} : Destination(call_state[1], a) \in blocked

\* The 1x3 World of the ordering scenario: agent at (0,1), dirty cells (0,0)
\* and (0,2), nothing blocked; the states reached from the start by E and W.
OrderingWorld ==
    /\ Searching /\ rows = 1 /\ cols = 3 /\ blocked = {}
    /\ start = <<0, 1>> /\ dirty = {<<0, 0>>, <<0, 2>>}
EastState == << <<0, 2>>, dirty >>
WestState == << <<0, 0>>, dirty >>

\* C8 as stated: in the ordering World the state reached by W is expanded
\* before the state reached by E.
C8_WestFirst ==
    (OrderingWorld /\ ExpandedAt(EastState) > 0)
        => (ExpandedAt(WestState) > 0 /\ ExpandedAt(WestState) < ExpandedAt(EastState))

\* C8 amended: in the ordering World both searches explore east before west:
\* the state reached by E is the second state expanded, and the state reached
\* by W is expanded, if at all, only after it.
C8_EastFirst ==
    OrderingWorld =>
        /\ (ExpandedAt(WestState) > 0
               => (ExpandedAt(EastState) > 0
                   /\ ExpandedAt(EastState) < ExpandedAt(WestState)))
        /\ (Len(expanded_order) >= 2 => expanded_order[2] = EastState)
        /\ (Done => ExpandedAt(EastState) > 0)

\* C8 witness: uniform-cost search has expanded the east state and then the
\* west state.
C8_Witness ==
    /\ OrderingWorld /\ algo = "uniform-cost"
    /\ ExpandedAt(EastState) = 2 /\ ExpandedAt(WestState) = 3

\* The 1x1 World with the agent on the only, dirty, cell.
SingleDirtyWorld ==
    /\ Searching /\ rows = 1 /\ cols = 1 /\ blocked = {}
    /\ start = <<0, 0>> /\ dirty = {<<0, 0>>}

\* The states that are on the frontier of the running search.
OnFrontier ==
    {stack[i][1] : i \in 1..Len(stack)} \cup {e[3] : e \in frontier}

\* C9: in the 1x1 World with the agent on a dirty cell both searches return
\* the plan [V], and the goal state is produced by the first expansion: when
\* it is on the frontier only the start state has been expanded.
C9_SingleDirty ==
    SingleDirtyWorld =>
        /\ (Done => (returned = "plan" /\ plan = <<"V">>))
        /\ (\A s \in OnFrontier : s[2] = {} => expanded_order = <<StartState>>)
        /\ (Done => expanded_order = <<StartState, << <<0, 0>>, {} >> >>)

\* C9 witness: a search of that World has returned a plan.
C9_Witness ==
    SingleDirtyWorld /\ returned = "plan" /\ Len(plan) = 1

\* C10: when no goal state is reachable (a dirty cell is walled off by blocked
\* cells) neither search raises an error or returns a plan, and a search that
\* has ended has returned None with the frontier empty.
C10_NoPlan ==
    (Searching /\ Done /\ ~GoalReachable) =>
        /\ returned = "None"
        /\ stack = << >> /\ frontier = {}
        /\ nodes_expanded <= nodes_generated
        /\ nodes_generated <= Len(ACTION_ORDER) * StateSpaceSize + 1

\* C10 witness: a dirty cell that is not itself blocked is walled off, and the
\* search has returned None after expanding the states it could reach.
C10_Witness ==
    /\ Searching /\ ~GoalReachable /\ returned = "None"
    /\ dirty \cap blocked = {} /\ Cardinality(blocked) = 2 /\ nodes_expanded >= 3

\* The states that were ever pushed onto the frontier.
PushedStates == {push_log[i][1] : i \in 1..Len(push_log)}

\* A state of the World: a position inside the grid that is not blocked, and a
\* dirty set within the initial one.
ValidState(s) ==
    /\ s[1] \in Cells(rows, cols)
    /\ s[1] \notin blocked
    /\ s[2] \subseteq dirty

\* C11: every state ever placed on the frontier, the visited set or the
\* best-cost map has its position inside the grid and not blocked, and a dirty
\* set that is a subset of the initial dirty set.
C11_ValidStates ==
    Searching =>
        \A s \in PushedStates \cup OnFrontier \cup visited \cup DOMAIN g_best :
            ValidState(s)

\* C11 witness: next to blocked cells a search has pushed six or more states,
\* one of them with a cell already cleaned.
C11_Witness ==
    /\ Searching /\ Cardinality(blocked) = 2
    /\ Cardinality(PushedStates) >= 6
    /\ \E s \in PushedStates : s[2] # dirty
    /\ \A s \in PushedStates : ValidState(s)

\* No element occurs twice in the sequence.
Distinct(seq) == \A i, j \in 1..Len(seq) : seq[i] = seq[j] => i = j

\* C12: in depth_first_search a popped entry whose state is already visited is
\* discarded without being expanded or counted, so no state is expanded twice
\* and nodes_expanded is the size of the visited set at every loop boundary.
C12_DFSVisitedOnce ==
    /\ [](algo = "depth-first" =>
            /\ nodes_expanded = Cardinality(visited)
            /\ nodes_expanded = Len(expanded_order)
            /\ Distinct(expanded_order)
            /\ visited = {expanded_order[i] : i \in 1..Len(expanded_order)})
    /\ [][(algo = "depth-first" /\ stack # << >> /\ StackTop(stack)[1] \in visited)
             => /\ nodes_expanded' = nodes_expanded
                /\ nodes_generated' = nodes_generated
                /\ visited' = visited
                /\ expanded_order' = expanded_order
                /\ Len(stack') <= Len(stack)]_vars

\* C12 witness: depth-first search has discarded popped entries (more
\* iterations than expansions) and a visited state is on top of the stack.
C12_Witness ==
    /\ algo = "depth-first" /\ returned = "pending"
    /\ iterations > nodes_expanded /\ nodes_expanded >= 3
    /\ stack # << >> /\ StackTop(stack)[1] \in visited

\* C13: in depth_first_search every push counts one in nodes_generated, also
\* for a state that is already visited or already on the stack: nodes_generated
\* is the number of entries popped so far plus the length of the stack, and the
\* number of pushes made, the start entry included.
C13_DFSGeneratedCount ==
    algo = "depth-first" =>
        /\ nodes_generated = iterations + Len(stack)
        /\ nodes_generated = Len(push_log)

\* C13 witness: the stack holds a visited state and the same state twice, and
\* nodes_generated counts every entry.
C13_Witness ==
    /\ algo = "depth-first"
    /\ \E i \in 1..Len(stack) : stack[i][1] \in visited
    /\ \E i, j \in 1..Len(stack) : i < j /\ stack[i][1] = stack[j][1]
    /\ nodes_generated = iterations + Len(stack)
    /\ nodes_generated > Cardinality(PushedStates)

\* C14 as stated: on return nodes_generated is the number of distinct states
\* that were ever placed on the frontier, in both searches.
C14_DistinctStates ==
    (Searching /\ Done) => nodes_generated = Cardinality(PushedStates)

\* C14 amended: nodes_generated counts every push onto the frontier, the start
\* entry included, exactly once: it is the number of pushes made; in
\* uniform_cost_search that is the number of distinct states ever placed on
\* the frontier, in depth_first_search it is at least that number.
C14_CountsPushes ==
    Searching =>
        /\ nodes_generated = Len(push_log)
        /\ nodes_generated >= Cardinality(PushedStates)
        /\ (algo = "uniform-cost" => nodes_generated = Cardinality(PushedStates))

\* C14 witness: depth-first search has returned after pushing some state more
\* than once.
C14_Witness ==
    /\ algo = "depth-first" /\ Done
    /\ nodes_generated = Len(push_log)
    /\ nodes_generated > Cardinality(PushedStates)

\* The order of the heap as C15 states it: by cost, then by sequence number.
CostThenSeq(a, b) == a[1] < b[1] \/ (a[1] = b[1] /\ a[2] < b[2])

\* C15: in uniform_cost_search entries are popped in ascending accumulated
\* cost and, at equal cost, in ascending insertion sequence number: the popped
\* costs never decrease, and every entry left on the heap comes after the
\* entry popped last.
C15_PopOrder ==
    algo = "uniform-cost" =>
        /\ \A i \in 1..(Len(pop_log) - 1) :
               /\ CostThenSeq(pop_log[i], pop_log[i + 1])
               /\ pop_log[i][1] <= pop_log[i + 1][1]
        /\ (pop_log # << >> =>
               \A e \in frontier : CostThenSeq(pop_log[Len(pop_log)], e))

\* C15 witness: pops of equal cost and of rising cost have both happened.
C15_Witness ==
    /\ algo = "uniform-cost" /\ Len(pop_log) >= 4
    /\ \E i \in 1..(Len(pop_log) - 1) :
           pop_log[i][1] = pop_log[i + 1][1] /\ pop_log[i][2] < pop_log[i + 1][2]
    /\ \E i \in 1..(Len(pop_log) - 1) : pop_log[i][1] < pop_log[i + 1][1]

\* The costs at which state s has been pushed.
PushedCosts(s) == {push_log[i][2] : i \in {k \in 1..Len(push_log) : push_log[k][1] = s}}

\* C16: in uniform_cost_search every state is expanded at most once, a popped
\* entry whose cost exceeds the best-known cost of its state is not counted as
\* expanded, and g_best[state] is the lowest cost at which the state has been
\* pushed.
C16_UCSExpandOnce ==
    /\ [](algo = "uniform-cost" =>
            /\ Distinct(expanded_order)
            /\ nodes_expanded = Len(expanded_order)
            /\ DOMAIN g_best = PushedStates
            /\ \A s \in DOMAIN g_best :
                   /\ g_best[s] \in PushedCosts(s)
                   /\ \A c \in PushedCosts(s) : g_best[s] <= c)
    /\ [][(algo = "uniform-cost" /\ pop_log' # pop_log
           /\ pop_log'[Len(pop_log')][1] > g_best[pop_log'[Len(pop_log')][3]])
             => (nodes_expanded' = nodes_expanded
                 /\ expanded_order' = expanded_order)]_vars

\* C16 witness: uniform-cost search has expanded six states, each once, on a
\* grid where states are reached along more than one path.
C16_Witness ==
    /\ algo = "uniform-cost" /\ rows > 1 /\ cols > 1 /\ blocked = {}
    /\ nodes_expanded >= 6 /\ Distinct(expanded_order)
    /\ DOMAIN g_best = PushedStates

\* The successor states of s in the canonical order V, N, S, E, W that are not
\* in vis.
NewSuccs(s, vis) ==
    LET ok(i) == /\ Precondition(s, CanonicalOrder[i])
                 /\ Effect(s, CanonicalOrder[i]) \notin vis
        F[i \in 0..Len(CanonicalOrder)] ==
            IF i = 0 THEN << >>
            ELSE IF ok(i) THEN Append(F[i - 1], Effect(s, CanonicalOrder[i]))
                 ELSE F[i - 1]
    IN  F[Len(CanonicalOrder)]

C18_UCSPushOnce ==
    /\ [](algo = "uniform-cost" =>
            /\ Distinct([i \in 1..Len(push_log) |-> push_log[i][1]])
            /\ nodes_generated = Cardinality(DOMAIN g_best)
            /\ \A e \in frontier :
                   e[3] \in DOMAIN g_best /\ e[1] = g_best[e[3]]
            /\ returned # "error")
    /\ [][(algo = "uniform-cost" /\ pop_log' # pop_log)
             => LET e == pop_log'[Len(pop_log')]
                IN  e[3] \in DOMAIN g_best /\ ~(e[1] > g_best[e[3]])]_vars

\* C18 witness: uniform-cost search has ended on an open grid, where states
\* are generated again at a cost that is not lower, with every state pushed
\* once.
C18_Witness ==
    /\ algo = "uniform-cost" /\ Done /\ rows > 1 /\ cols > 1 /\ blocked = {}
    /\ nodes_generated >= 8 /\ nodes_generated = Cardinality(DOMAIN g_best)
    /\ Len(pop_log) = nodes_expanded

\* The states reachable from the start state.
RECURSIVE Closure(_, _)
Closure(layer, seen) ==
    LET nxt == UNION {SuccStates(s) : s \in layer} \ seen
    IN  IF nxt = {} THEN seen ELSE Closure(nxt, seen \cup nxt)
ReachableStates == Closure({StartState}, {StartState})

\* The states a path passes through from state on, the first one included.
RECURSIVE StatesAlong(_, _, _)
StatesAlong(state, path, i) ==
    IF i > Len(path) THEN <<state>>
    ELSE <<state>> \o StatesAlong(Effect(state, path[i]), path, i + 1)

\* C19: a plan returned by depth_first_search never passes through the same
\* state twice, so it is shorter than the number of states reachable from the
\* start state.
C19_DFSPlanSimple ==
    (algo = "depth-first" /\ returned = "plan") =>
        /\ Distinct(StatesAlong(StartState, plan, 1))
        /\ Len(plan) < Cardinality(ReachableStates)

\* C19 witness: depth-first search returned a plan longer than the shortest
\* one that still passes through no state twice.
C19_Witness ==
    /\ algo = "depth-first" /\ returned = "plan"
    /\ Len(plan) >= MinActions + 4
    /\ Distinct(StatesAlong(StartState, plan, 1))

\* The state a path leads to from state when every action of path[i..] is
\* legal where it is applied (its precondition holds); empty otherwise.
RECURSIVE LeadsTo(_, _, _)
LeadsTo(state, path, i) ==
    IF i > Len(path) THEN {state}
    ELSE IF Precondition(state, path[i])
         THEN LeadsTo(Effect(state, path[i]), path, i + 1)
         ELSE {}

\* C20: the path stored with every frontier entry is a legal action sequence
\* from the start state to the entry's state; in uniform_cost_search its
\* length is the entry's cost g, and g_best of the entry's state is at most g.
C20_FrontierPaths ==
    /\ algo = "depth-first" =>
           \A i \in 1..Len(stack) :
               LeadsTo(StartState, stack[i][2], 1) = {stack[i][1]}
    /\ algo = "uniform-cost" =>
           \A e \in frontier :
               /\ LeadsTo(StartState, e[4], 1) = {e[3]}
               /\ Len(e[4]) = e[1]
               /\ e[3] \in DOMAIN g_best /\ g_best[e[3]] <= e[1]

\* C20 witness: the heap holds an entry three actions away from the start,
\* with the path that leads to it.
C20_Witness ==
    /\ algo = "uniform-cost" /\ returned = "pending"
    /\ \E e \in frontier :
           /\ e[1] >= 3 /\ Len(e[4]) = e[1]
           /\ LeadsTo(StartState, e[4], 1) = {e[3]}

====
